---- MODULE Spec2Model ----
(***************************************************************************)
(* Order lifecycle and inventory transaction engine of bot.py.             *)
(*                                                                         *)
(* The persisted JSON document is the variable store; every handler is a   *)
(* coroutine run in one of a fixed number of handler slots.  A handler's   *)
(* position is pc[h]:                                                       *)
(*   "idle"        no coroutine in the slot                                 *)
(*   "wait"        suspended in `async with STORE_LOCK` (lock was taken)     *)
(*   "send_locked" awaiting an outbound send while still inside the section *)
(*   "send"        awaiting outbound sends after the section was left       *)
(* Opaque text (product name, description, delivery, display names) and    *)
(* the product's created_at carry no control flow and are left out.        *)
(* Timestamps are integers (seconds); an absent dict key is None.          *)
(***************************************************************************)
EXTENDS Integers, Sequences, FiniteSets, Bags, TLC

\* ---------------------------------------------------------------- bounds
NumHandlers == 2
NumUsers == 2
MaxProducts == 2
MaxOrders == 2
MaxStock == 2
MaxQty == 2
MaxPrice == 1
TickStep == 60
MaxTime == 60

\* ------------------------------------------------------ program constants
ORDER_PAYMENT_TIMEOUT_SECONDS == 60
\* TELEGRAM_ADMIN_IDS: user 1, who also issues requests, and an admin outside
\* Users, who only receives notifications
ADMIN_IDS == {1, NumUsers + 1}

Handlers == 1..NumHandlers
Users == 1..NumUsers
None == -1

VARIABLES
    store,       \* the persisted document (data/products.json)
    STORE_LOCK,  \* asyncio.Lock: TRUE while locked
    waiters,     \* asyncio.Lock: the handlers suspended in acquire(), first come first
    clock,       \* wall clock, datetime.now(timezone.utc)
    jobs,        \* job queue: the bag of scheduled jobs [name, due]; the job
                 \* "auto_reject_<id>" has name id
    user_data,   \* context.user_data[user]["awaiting_proof_order_id"], 0 when unset
    job_queue,   \* whether context.job_queue exists and schedules
    pc,          \* position of the coroutine in each handler slot
    req,         \* a suspended coroutine's locals: operation, caller, arguments, `now`
    outbox,      \* the sends the coroutine still has to await, in order
    scope,       \* the input sets of this run (fixed at Init)
    removed_ids, \* history: ids of the products removed so far
    job_result,  \* history: order id -> outcome of the last run of its timer job
    stock0       \* history: product id -> stock the product was created with

vars == <<store, STORE_LOCK, waiters, clock, jobs, user_data, job_queue, pc, req,
          outbox, scope, removed_ids, job_result, stock0>>

\* ----------------------------------------------------------------- values
NonTerminal == {"pending_payment", "awaiting_proof", "proof_submitted"}
Terminal == {"paid", "rejected", "rejected_timeout", "cancelled"}

EmptyStore == [next_id |-> 1, next_order_id |-> 1, products |-> <<>>, orders |-> <<>>]

NoReq == [op |-> "none", user |-> 0, id |-> 0, qty |-> 0, price |-> 0,
          stock |-> 0, photo |-> 0, now |-> 0]

Request(op, user, id, qty, price, stock, photo, now) ==
    [op |-> op, user |-> user, id |-> id, qty |-> qty, price |-> price,
     stock |-> stock, photo |-> photo, now |-> now]

\* ------------------------------------------------------------ pure helpers
is_admin(user) == user \in ADMIN_IDS

\* index of the first product with this id, 0 when there is none
get_product(d, product_id) ==
    IF \E i \in 1..Len(d.products) : d.products[i].id = product_id
    THEN CHOOSE i \in 1..Len(d.products) :
            /\ d.products[i].id = product_id
            /\ \A j \in 1..(i - 1) : d.products[j].id # product_id
    ELSE 0

\* index of the first order with this id, 0 when there is none
find_order(d, order_id) ==
    IF \E i \in 1..Len(d.orders) : d.orders[i].id = order_id
    THEN CHOOSE i \in 1..Len(d.orders) :
            /\ d.orders[i].id = order_id
            /\ \A j \in 1..(i - 1) : d.orders[j].id # order_id
    ELSE 0

\* an expiry test that never holds
is_order_expired_never(order, now) == FALSE

\* an expiry test that holds only after the deadline, not at it
is_order_expired_strictly(order, now) ==
    (now - order.created_at) > ORDER_PAYMENT_TIMEOUT_SECONDS

is_order_expired(order, now) ==
    (now - order.created_at) >= ORDER_PAYMENT_TIMEOUT_SECONDS

\* the time elapsed since created_at, not the time left
seconds_since_created(order, now) == now - order.created_at

seconds_until_expired(order, now) ==
    LET remaining == ORDER_PAYMENT_TIMEOUT_SECONDS - (now - order.created_at)
    IN  IF remaining > 0 THEN remaining ELSE 0

mark_order_timeout(order, now) ==
    [order EXCEPT !.status = "rejected_timeout", !.rejected_at = now]

new_product(product_id, price, stock, seller) ==
    [id |-> product_id, price |-> price, stock |-> stock, seller_id |-> seller]

\* a total that is the unit price
order_total_unit(product, qty) == product.price

order_total(product, qty) == product.price * qty

new_order(order_id, product, qty, buyer, now) ==
    [id |-> order_id, product_id |-> product.id, qty |-> qty,
     total |-> order_total(product, qty), buyer_id |-> buyer,
     status |-> "pending_payment", created_at |-> now,
     proof_type |-> "", proof_file_id |-> None, proof_submitted_at |-> None,
     paid_at |-> None, approved_by |-> None,
     rejected_at |-> None, rejected_by |-> None, cancelled_at |-> None]

\* one send per admin, in id order
RECURSIVE admin_sends(_, _)
admin_sends(kind, ids) ==
    IF ids = {} THEN <<>>
    ELSE LET a == CHOOSE x \in ids : \A y \in ids : x <= y
         IN  <<[kind |-> kind, to |-> a, text |-> ""]>> \o admin_sends(kind, ids \ {a})

notify_admins(kind) == admin_sends(kind, ADMIN_IDS)

notify_timeout(order) ==
    <<[kind |-> "timed_out", to |-> order.buyer_id, text |-> ""]>> \o notify_admins("timed_out")

reply(user, text) == <<[kind |-> "reply", to |-> user, text |-> text]>>

\* ------------------------------------------------------------ transactions
\* What a handler does inside `async with STORE_LOCK` with the document d it
\* loaded: the document it leaves, whether _save_store was called, the
\* outcome, the sends that follow, and whether the first of them is awaited
\* before the section is left (hold).
Out(d, saved, res, hold, sends) ==
    [doc |-> d, saved |-> saved, result |-> res, hold |-> hold, sends |-> sends,
     arm |-> 0, delay |-> 0, awaiting |-> None]

\* a product id taken from the number of products listed, not the counter
create_product_record_reuse(d, r) ==
    LET product == new_product(Len(d.products) + 1, r.price, r.stock, r.user)
    IN  Out([d EXCEPT !.next_id = d.next_id + 1,
                      !.products = Append(d.products, product)],
            TRUE, "ok", FALSE, reply(r.user, "ok"))

create_product_record(d, r) ==
    LET product == new_product(d.next_id, r.price, r.stock, r.user)
    IN  Out([d EXCEPT !.next_id = d.next_id + 1,
                      !.products = Append(d.products, product)],
            TRUE, "ok", FALSE, reply(r.user, "ok"))

\* a removal that hands the freed id back by rewinding the counter
remove_record_rewinding(d, r) ==
    IF get_product(d, r.id) = 0
    THEN Out(d, FALSE, "NotFound", TRUE, reply(r.user, "NotFound"))
    ELSE Out([d EXCEPT !.next_id = d.next_id - 1,
                       !.products =
                 SelectSeq(d.products, LAMBDA item : item.id # r.id)],
             TRUE, "ok", FALSE, reply(r.user, "ok"))

\* a removal that also drops the orders made for the product
remove_record_cascading(d, r) ==
    IF get_product(d, r.id) = 0
    THEN Out(d, FALSE, "NotFound", TRUE, reply(r.user, "NotFound"))
    ELSE Out([d EXCEPT !.products =
                 SelectSeq(d.products, LAMBDA item : item.id # r.id),
                       !.orders =
                 SelectSeq(d.orders, LAMBDA order : order.product_id # r.id)],
             TRUE, "ok", FALSE, reply(r.user, "ok"))

remove_record(d, r) ==
    IF get_product(d, r.id) = 0
    THEN Out(d, FALSE, "NotFound", TRUE, reply(r.user, "NotFound"))
    ELSE Out([d EXCEPT !.products =
                 SelectSeq(d.products, LAMBDA item : item.id # r.id)],
             TRUE, "ok", FALSE, reply(r.user, "ok"))

\* a stock check that never finds the stock short
insufficient_stock_never(product, qty) == FALSE

\* a stock check that only refuses an empty stock
insufficient_stock_empty(product, qty) == product.stock <= 0

\* a stock check that lets one unit too many through
insufficient_stock_off_by_one(product, qty) == product.stock + 1 < qty

\* product["stock"] < qty, at checkout and again at approval
insufficient_stock(product, qty) == product.stock < qty

create_order(d, r) ==
    LET j == get_product(d, r.id)
    IN  IF j = 0
        THEN Out(d, FALSE, "NotFound", TRUE, reply(r.user, "NotFound"))
        ELSE IF insufficient_stock(d.products[j], r.qty)
        THEN Out(d, FALSE, "InsufficientStock", TRUE,
                 reply(r.user, "InsufficientStock"))
        ELSE LET order == new_order(d.next_order_id, d.products[j], r.qty,
                                    r.user, r.now)
             IN  [Out([d EXCEPT !.next_order_id = d.next_order_id + 1,
                                !.orders = Append(d.orders, order)],
                      TRUE, "ok", FALSE,
                      notify_admins("order_created") \o reply(r.user, "ok"))
                  EXCEPT !.arm = order.id,
                         !.delay = ORDER_PAYMENT_TIMEOUT_SECONDS]

\* a test that also lets through an order that already timed out
awaits_payment_or_timed_out(order) ==
    order.status \in {"pending_payment", "awaiting_proof", "rejected_timeout"}

\* a test that also lets through an order whose proof was sent
awaits_payment_or_review(order) == order.status \in NonTerminal

\* the statuses from which a proof may still be requested or sent, and from
\* which the timer expires an order
awaits_payment(order) == order.status \in {"pending_payment", "awaiting_proof"}

\* an ownership test that every user passes
owns_any(order, user) == TRUE

owns(order, user) == order.buyer_id = user

\* the guards _prompt_proof and handle_proof share
\* a guard that sends the timeout notices again for an order already timed out
proof_guard_renotify(d, r) ==
    LET i == find_order(d, r.id)
    IN  IF i = 0
        THEN Out(d, FALSE, "NotFound", TRUE, reply(r.user, "NotFound"))
        ELSE IF ~owns(d.orders[i], r.user)
        THEN Out(d, FALSE, "Forbidden", TRUE, reply(r.user, "Forbidden"))
        ELSE IF d.orders[i].status = "rejected_timeout"
        THEN Out(d, FALSE, "Expired", TRUE, notify_timeout(d.orders[i]))
        ELSE IF ~awaits_payment(d.orders[i])
        THEN Out(d, FALSE, "AlreadyProcessed", TRUE,
                 reply(r.user, "AlreadyProcessed"))
        ELSE IF is_order_expired(d.orders[i], r.now)
        THEN Out([d EXCEPT !.orders[i] = mark_order_timeout(d.orders[i], r.now)],
                 TRUE, "Expired", TRUE, notify_timeout(d.orders[i]))
        ELSE Out(d, FALSE, "pass", FALSE, <<>>)

proof_guard(d, r) ==
    LET i == find_order(d, r.id)
    IN  IF i = 0
        THEN Out(d, FALSE, "NotFound", TRUE, reply(r.user, "NotFound"))
        ELSE IF ~owns(d.orders[i], r.user)
        THEN Out(d, FALSE, "Forbidden", TRUE, reply(r.user, "Forbidden"))
        ELSE IF d.orders[i].status = "rejected_timeout"
        THEN Out(d, FALSE, "Expired", TRUE, reply(r.user, "Expired"))
        ELSE IF ~awaits_payment(d.orders[i])
        THEN Out(d, FALSE, "AlreadyProcessed", TRUE,
                 reply(r.user, "AlreadyProcessed"))
        ELSE IF is_order_expired(d.orders[i], r.now)
        THEN Out([d EXCEPT !.orders[i] = mark_order_timeout(d.orders[i], r.now)],
                 TRUE, "Expired", TRUE, notify_timeout(d.orders[i]))
        ELSE Out(d, FALSE, "pass", FALSE, <<>>)

\* a /confirm that opens the session and leaves the order's status as it was
prompt_proof_keeping_status(d, r) ==
    LET g == proof_guard(d, r)
    IN  IF g.result # "pass" THEN g
        ELSE [Out(d, TRUE, "ok", FALSE, reply(r.user, "ok"))
              EXCEPT !.awaiting = r.id]

prompt_proof(d, r) ==
    LET i == find_order(d, r.id)
        g == proof_guard(d, r)
    IN  IF g.result # "pass" THEN g
        ELSE [Out([d EXCEPT !.orders[i].status = "awaiting_proof"],
                  TRUE, "ok", FALSE, reply(r.user, "ok"))
              EXCEPT !.awaiting = r.id]

submit_proof(d, r) ==
    LET i == find_order(d, r.id)
        g == proof_guard(d, r)
    IN  IF g.result # "pass" THEN g
        ELSE [Out([d EXCEPT !.orders[i].status = "proof_submitted",
                            !.orders[i].proof_type = "photo",
                            !.orders[i].proof_file_id = r.photo,
                            !.orders[i].proof_submitted_at = r.now],
                  TRUE, "ok", FALSE,
                  reply(r.user, "ok") \o notify_admins("proof_submitted"))
              EXCEPT !.awaiting = 0]

\* an approve that also accepts an order already paid
approvable_or_paid(order) == order.status \in {"proof_submitted", "paid"}

\* an approve that accepts every order still open
approvable_open(order) == order.status \in NonTerminal

\* an approve that leaves the stock as it was
take_none(product, qty) == product

\* a decrement by one unit whatever the quantity ordered
take_one(product, qty) == [product EXCEPT !.stock = product.stock - 1]

approvable(order) == order.status = "proof_submitted"

take_stock(product, qty) == [product EXCEPT !.stock = product.stock - qty]

mark_paid(order, admin, now) ==
    [order EXCEPT !.status = "paid", !.paid_at = now, !.approved_by = admin]

\* a cancellation stamped in rejected_at
mark_cancelled_as_rejected(order, now) ==
    [order EXCEPT !.status = "cancelled", !.rejected_at = now]

mark_cancelled(order, now) ==
    [order EXCEPT !.status = "cancelled", !.cancelled_at = now]

approve_order(d, r) ==
    LET i == find_order(d, r.id)
    IN  IF i = 0
        THEN Out(d, FALSE, "NotFound", FALSE, reply(r.user, "NotFound"))
        ELSE IF ~approvable(d.orders[i])
        THEN Out(d, FALSE, "WrongState", FALSE, reply(r.user, "WrongState"))
        ELSE LET j == get_product(d, d.orders[i].product_id)
             IN  IF j = 0
                 THEN Out([d EXCEPT !.orders[i] = mark_cancelled(d.orders[i], r.now)],
                          TRUE, "ProductGone", FALSE, reply(r.user, "ProductGone"))
                 ELSE IF insufficient_stock(d.products[j], d.orders[i].qty)
                 THEN Out([d EXCEPT !.orders[i] = mark_cancelled(d.orders[i], r.now)],
                          TRUE, "InsufficientStock", FALSE,
                          reply(r.user, "InsufficientStock"))
                 ELSE Out([d EXCEPT !.products[j] =
                                        take_stock(d.products[j], d.orders[i].qty),
                                    !.orders[i] =
                                        mark_paid(d.orders[i], r.user, r.now)],
                          TRUE, "ok", FALSE,
                          <<[kind |-> "approved", to |-> d.orders[i].buyer_id,
                             text |-> ""]>> \o reply(r.user, "ok"))

\* a reject that accepts an order in any status
rejectable_always(order) == TRUE

\* a reject that is accepted only once the proof was sent
rejectable_after_proof(order) == order.status = "proof_submitted"

rejectable(order) ==
    order.status \in {"proof_submitted", "pending_payment", "awaiting_proof"}

mark_rejected(order, admin, now) ==
    [order EXCEPT !.status = "rejected", !.rejected_at = now, !.rejected_by = admin]

reject_order(d, r) ==
    LET i == find_order(d, r.id)
    IN  IF i = 0
        THEN Out(d, FALSE, "NotFound", FALSE, reply(r.user, "NotFound"))
        ELSE IF ~rejectable(d.orders[i])
        THEN Out(d, FALSE, "AlreadyProcessed", FALSE,
                 reply(r.user, "AlreadyProcessed"))
        ELSE Out([d EXCEPT !.orders[i] = mark_rejected(d.orders[i], r.user, r.now)],
                 TRUE, "ok", FALSE,
                 <<[kind |-> "rejected", to |-> d.orders[i].buyer_id,
                    text |-> ""]>> \o reply(r.user, "ok"))

auto_reject(d, r) ==
    LET i == find_order(d, r.id)
    IN  IF i = 0
        THEN Out(d, FALSE, "NotFound", FALSE, <<>>)
        ELSE IF ~awaits_payment(d.orders[i])
        THEN Out(d, FALSE, "AlreadyProcessed", FALSE, <<>>)
        ELSE IF ~is_order_expired(d.orders[i], r.now)
        THEN [Out(d, FALSE, "NotExpired", FALSE, <<>>)
              EXCEPT !.arm = IF seconds_until_expired(d.orders[i], r.now) # 0
                             THEN r.id ELSE 0,
                     !.delay = seconds_until_expired(d.orders[i], r.now)]
        ELSE Out([d EXCEPT !.orders[i] = mark_order_timeout(d.orders[i], r.now)],
                 TRUE, "Expired", FALSE, notify_timeout(d.orders[i]))

transaction(d, r) ==
    CASE r.op = "sell" -> create_product_record(d, r)
      [] r.op = "remove" -> remove_record(d, r)
      [] r.op = "checkout" -> create_order(d, r)
      [] r.op = "confirm" -> prompt_proof(d, r)
      [] r.op = "proof" -> submit_proof(d, r)
      [] r.op = "approve" -> approve_order(d, r)
      [] r.op = "reject" -> reject_order(d, r)
      [] r.op = "job" -> auto_reject(d, r)

\* job_queue.get_jobs_by_name: the scheduled jobs of that name
get_jobs_by_name(q, name) == {job \in BagToSet(q) : job.name = name}

\* a test that never finds a job scheduled
has_job_never(q, name) == FALSE

\* `if job_queue.get_jobs_by_name(name): return`
has_job(q, name) == get_jobs_by_name(q, name) # {}

\* _schedule_auto_reject: no job queue or a failing one arms nothing; a job
\* of that name already scheduled is kept; run_once counts from the present
schedule_auto_reject(q, order_id, delay, at, queue_ok) ==
    IF order_id = 0 \/ ~queue_ok THEN q
    ELSE IF has_job(q, order_id) THEN q
    ELSE q (+) SetToBag({[name |-> order_id, due |-> at + delay]})

\* what the handler decides before it reaches `async with STORE_LOCK`:
\* "pass", or the refusal it answers its caller with
preflight(r) ==
    CASE r.op \in {"sell", "remove", "approve", "reject"} /\ ~is_admin(r.user)
            -> "Forbidden"
      [] r.op = "sell" /\ is_admin(r.user) /\ (r.price <= 0 \/ r.stock <= 0)
            -> "InvalidInput"
      [] r.op = "checkout" /\ r.qty <= 0 -> "InvalidInput"
      [] r.op = "proof" /\ r.id = 0 -> "NoSession"
      [] r.op = "proof" /\ r.id # 0 /\ r.photo = 0 -> "InvalidInput"
      [] OTHER -> "pass"

\* ------------------------------------------------------------------ state
\* The runs explored (each fixes the input sets of a run at Init):
\*   one handler at a time over the full input sets, the clock at rest;
\*   concurrent handlers over two orders for one product, the clock at rest;
\*   concurrent handlers and the timer over one order, the clock running;
\*   one handler and one order without a job queue, the clock running;
\*   concurrent handlers and a timer that may run ahead of its due time over
\*   one order, the clock running.
\* The handlers that only read the document run where readers is TRUE.
Scopes ==
    { [handlers |-> {1}, products |-> MaxProducts, orders |-> MaxOrders,
       qtys |-> 0..MaxQty, stocks |-> 0..MaxStock, queues |-> {TRUE},
       horizon |-> 0, early |-> FALSE, readers |-> FALSE],
      [handlers |-> Handlers, products |-> 1, orders |-> MaxOrders,
       qtys |-> 0..1, stocks |-> 0..MaxStock, queues |-> {TRUE},
       horizon |-> 0, early |-> FALSE, readers |-> FALSE],
      [handlers |-> Handlers, products |-> 1, orders |-> 1,
       qtys |-> 0..1, stocks |-> 0..1, queues |-> {TRUE},
       horizon |-> MaxTime, early |-> FALSE, readers |-> TRUE],
      [handlers |-> {1}, products |-> 1, orders |-> 1,
       qtys |-> 0..1, stocks |-> 0..1, queues |-> {FALSE},
       horizon |-> MaxTime, early |-> FALSE, readers |-> FALSE],
      [handlers |-> Handlers, products |-> 1, orders |-> 1,
       qtys |-> {1}, stocks |-> {1}, queues |-> {TRUE},
       horizon |-> MaxTime, early |-> TRUE, readers |-> FALSE] }

Init ==
    /\ store = EmptyStore
    /\ STORE_LOCK = FALSE
    /\ waiters = <<>>
    /\ clock = 0
    /\ jobs = EmptyBag
    /\ user_data = [u \in Users |-> 0]
    /\ scope \in Scopes
    /\ job_queue \in scope.queues
    /\ pc = [h \in Handlers |-> "idle"]
    /\ req = [h \in Handlers |-> NoReq]
    /\ outbox = [h \in Handlers |-> <<>>]
    /\ removed_ids = {}
    /\ job_result = [o \in 1..MaxOrders |-> ""]
    /\ stock0 = [i \in 1..MaxProducts |-> 0]

\* what is left of a coroutine's locals once it has left its transaction: the
\* operation whose sends it awaits
Sending(op) == [NoReq EXCEPT !.op = op]

InSection(h) == pc[h] = "send_locked"

\* a lock that lets every caller in
CanAcquireAlways(lock) == TRUE

\* asyncio.Lock.acquire returns at once exactly when the lock is not held
CanAcquire(lock) == lock = FALSE

\* asyncio.Lock.acquire queues a caller behind the coroutines already waiting
NoWaiter == waiters = <<>>

\* the handler ends before the section with an answer to its caller
Refuse(h, r) ==
    /\ pc' = [pc EXCEPT ![h] = "send"]
    /\ outbox' = [outbox EXCEPT ![h] = reply(r.user, preflight(r))]
    /\ req' = [req EXCEPT ![h] = Sending(r.op)]
    /\ UNCHANGED <<store, STORE_LOCK, waiters, clock, jobs, user_data, job_queue,
                   scope, removed_ids, job_result, stock0>>

\* the handler finds the lock taken and is suspended in acquire()
Suspend(h, r) ==
    /\ pc' = [pc EXCEPT ![h] = "wait"]
    /\ req' = [req EXCEPT ![h] = r]
    /\ waiters' = Append(waiters, h)
    /\ UNCHANGED <<store, STORE_LOCK, clock, jobs, user_data, job_queue,
                   outbox, scope, removed_ids, job_result, stock0>>

\* a save that, where the section changed an order, writes the orders and
\* leaves the products on file as they were
save_store_orders_first(d, out) ==
    IF ~out.saved THEN d
    ELSE IF out.doc.orders # d.orders THEN [out.doc EXCEPT !.products = d.products]
    ELSE out.doc

\* the file after a section that loaded d: the one document the section
\* passed to _save_store, or d where it returned without saving
save_store(d, out) == IF out.saved THEN out.doc ELSE d

\* The body of the section, run without a suspension point from the load to
\* the save: the handler then awaits a send inside the section (hold) or
\* leaves it.  What it does on leaving before its next await (arming the
\* timer, the session entry) belongs to the same step.
Commit(h, r) ==
    LET out == transaction(store, r)
    IN  /\ store' = save_store(store, out)
        /\ STORE_LOCK' = out.hold
        /\ waiters' = SelectSeq(waiters, LAMBDA w : w # h)
        /\ jobs' = schedule_auto_reject(jobs, out.arm, out.delay, clock, job_queue)
        /\ user_data' = IF out.awaiting = None THEN user_data
                        ELSE [user_data EXCEPT ![r.user] = out.awaiting]
        /\ outbox' = [outbox EXCEPT ![h] = out.sends]
        /\ pc' = [pc EXCEPT ![h] =
                     IF out.sends = <<>> THEN "idle"
                     ELSE IF out.hold THEN "send_locked" ELSE "send"]
        /\ req' = [req EXCEPT ![h] = IF out.sends = <<>> THEN NoReq ELSE Sending(r.op)]
        /\ job_result' = IF r.op = "job" THEN [job_result EXCEPT ![r.id] = out.result]
                         ELSE job_result
        /\ removed_ids' =
              IF r.op = "remove" /\ out.saved THEN removed_ids \cup {r.id}
              ELSE removed_ids
        /\ stock0' =
              IF r.op = "sell" /\ store.next_id \in DOMAIN stock0
              THEN [stock0 EXCEPT ![store.next_id] = r.stock]
              ELSE stock0
        /\ UNCHANGED <<clock, job_queue, scope>>

\* a handler called with the locals r
Handle(h, r) ==
    /\ pc[h] = "idle"
    /\ h \in scope.handlers
    /\ IF preflight(r) # "pass" THEN Refuse(h, r)
       ELSE IF CanAcquire(STORE_LOCK) /\ NoWaiter THEN Commit(h, r)
       ELSE Suspend(h, r)

\* number of suspended coroutines on their way to run this operation
Pending(op) == Cardinality({h \in Handlers : pc[h] = "wait" /\ req[h].op = op})

Tick ==
    /\ clock + TickStep <= scope.horizon
    /\ clock' = clock + TickStep
    /\ UNCHANGED <<store, STORE_LOCK, waiters, jobs, user_data, job_queue, pc, req,
                   outbox, scope, removed_ids, job_result, stock0>>

\* /sell and the sell form's confirm button
sell_product(h, user, price, stock) ==
    /\ store.next_id + Pending("sell") <= scope.products
    /\ Handle(h, Request("sell", user, 0, 0, price, stock, 0, clock))

\* /remove <id>
remove_product(h, user, product_id) ==
    Handle(h, Request("remove", user, product_id, 0, 0, 0, 0, clock))

\* /checkout <qty> and the checkout buttons
checkout_product(h, user, product_id, qty) ==
    /\ store.next_order_id + Pending("checkout") <= scope.orders
    /\ Handle(h, Request("checkout", user, product_id, qty, 0, 0, 0, clock))

\* /confirm <order_id> and the confirm button
confirm_payment(h, user, order_id) ==
    Handle(h, Request("confirm", user, order_id, 0, 0, 0, 0, clock))

\* a photo or document message; photo = 0 is a message without a photo
handle_proof(h, user, photo) ==
    Handle(h, Request("proof", user, user_data[user], 0, 0, 0, photo, clock))

\* a handler that loads the document without entering the section and
\* answers from what it read
read_store(h, op, user, text) ==
    /\ pc[h] = "idle"
    /\ h \in scope.handlers
    /\ scope.readers
    /\ pc' = [pc EXCEPT ![h] = "send"]
    /\ outbox' = [outbox EXCEPT ![h] = reply(user, text)]
    /\ req' = [req EXCEPT ![h] = Sending(op)]
    /\ UNCHANGED <<store, STORE_LOCK, waiters, clock, jobs, user_data, job_queue,
                   scope, removed_ids, job_result, stock0>>

\* /list
list_products(h, user) ==
    read_store(h, "list", user, IF store.products = <<>> THEN "Empty" ELSE "ok")

\* /detail <id>
detail_product(h, user, product_id) ==
    read_store(h, "detail", user,
               IF get_product(store, product_id) = 0 THEN "NotFound" ELSE "ok")

\* /myproducts
my_products(h, user) ==
    read_store(h, "my", user,
               IF ~is_admin(user) THEN "Forbidden"
               ELSE IF SelectSeq(store.products,
                                 LAMBDA item : item.seller_id = user) = <<>>
               THEN "Empty" ELSE "ok")

\* the admin:approve button
approve(h, user, order_id) ==
    Handle(h, Request("approve", user, order_id, 0, 0, 0, 0, clock))

\* the admin:reject button
reject(h, user, order_id) ==
    Handle(h, Request("reject", user, order_id, 0, 0, 0, 0, clock))

\* the job queue runs a job named auto_reject_<id>: at or after its due time,
\* or ahead of it where the run lets the wall clock be set back between the
\* order's created_at and the arming of its timer (scope.early).  A run_once
\* job leaves the queue as it is dispatched.
auto_reject_job(h, order_id) ==
    /\ pc[h] = "idle"
    /\ h \in scope.handlers
    /\ \E job \in get_jobs_by_name(jobs, order_id) :
          /\ clock >= job.due \/ scope.early
          /\ LET r == Request("job", 0, order_id, 0, 0, 0, 0, clock)
                 q == jobs (-) SetToBag({job})
                 out == transaction(store, r)
             IN  IF CanAcquire(STORE_LOCK) /\ NoWaiter
                 THEN /\ store' = save_store(store, out)
                      /\ STORE_LOCK' = FALSE
                      /\ jobs' = schedule_auto_reject(q, out.arm, out.delay, clock, job_queue)
                      /\ outbox' = [outbox EXCEPT ![h] = out.sends]
                      /\ pc' = [pc EXCEPT ![h] = IF out.sends = <<>> THEN "idle" ELSE "send"]
                      /\ req' = [req EXCEPT ![h] =
                                    IF out.sends = <<>> THEN NoReq ELSE Sending("job")]
                      /\ job_result' = [job_result EXCEPT ![order_id] = out.result]
                      /\ UNCHANGED <<waiters, clock, user_data, job_queue, scope,
                                     removed_ids, stock0>>
                 ELSE /\ jobs' = q
                      /\ pc' = [pc EXCEPT ![h] = "wait"]
                      /\ req' = [req EXCEPT ![h] = r]
                      /\ waiters' = Append(waiters, h)
                      /\ UNCHANGED <<store, STORE_LOCK, clock, user_data, job_queue,
                                     outbox, scope, removed_ids, job_result, stock0>>

\* a suspended handler is given the released lock and runs its section
LockGranted(h) ==
    /\ pc[h] = "wait"
    /\ Head(waiters) = h
    /\ CanAcquire(STORE_LOCK)
    /\ Commit(h, req[h])

\* sends of which any failure ends the handler
after_send_abort(sends, delivered) ==
    IF ~delivered THEN <<>> ELSE Tail(sends)

\* the sends left after the first one returned (delivered) or raised: the
\* exception of a notification is caught where it is sent, that of a reply
\* leaves the handler
after_send(sends, delivered) ==
    IF ~delivered /\ Head(sends).kind = "reply" THEN <<>> ELSE Tail(sends)

\* a return that leaves the lock held
release_never(position, lock) == lock

\* the lock after a handler returns: leaving `async with STORE_LOCK` releases
\* it on every way out of the block
release(position, lock) == IF position = "send_locked" THEN FALSE ELSE lock

\* the send the handler awaits returns (delivered) or raises.  A failed
\* notification is caught and logged; a failed reply ends the handler.  After
\* its last send the handler returns, leaving the section if it is inside.
Send(h, delivered) ==
    /\ pc[h] \in {"send", "send_locked"}
    /\ LET rest == after_send(outbox[h], delivered)
       IN  /\ outbox' = [outbox EXCEPT ![h] = rest]
           /\ IF rest # <<>>
              THEN UNCHANGED <<STORE_LOCK, pc, req>>
              ELSE /\ STORE_LOCK' = release(pc[h], STORE_LOCK)
                   /\ pc' = [pc EXCEPT ![h] = "idle"]
                   /\ req' = [req EXCEPT ![h] = NoReq]
    /\ UNCHANGED <<store, waiters, clock, jobs, user_data, job_queue, scope,
                   removed_ids, job_result, stock0>>

Next ==
    \/ Tick
    \/ \E h \in Handlers, user \in Users :
          \/ \E price \in 0..MaxPrice, stock \in scope.stocks :
                sell_product(h, user, price, stock)
          \/ list_products(h, user)
          \/ my_products(h, user)
          \/ \E product_id \in 1..scope.products :
                \/ detail_product(h, user, product_id)
                \/ remove_product(h, user, product_id)
                \/ \E qty \in scope.qtys :
                      user \notin ADMIN_IDS /\ checkout_product(h, user, product_id, qty)
          \/ \E order_id \in 1..scope.orders :
                \/ confirm_payment(h, user, order_id)
                \/ approve(h, user, order_id)
                \/ reject(h, user, order_id)
          \/ \E photo \in 0..1 : handle_proof(h, user, photo)
    \/ \E h \in Handlers :
          \/ \E order_id \in 1..MaxOrders : auto_reject_job(h, order_id)
          \/ LockGranted(h)
          \/ \E delivered \in BOOLEAN : Send(h, delivered)

Spec == Init /\ [][Next]_vars

\* ---------------------------------------------------------------- claims
OrderIdx == 1..Len(store.orders)

ProductIdx == 1..Len(store.products)

RECURSIVE PaidQtyUpTo(_, _)
PaidQtyUpTo(product_id, n) ==
    IF n = 0 THEN 0
    ELSE PaidQtyUpTo(product_id, n - 1)
         + (IF /\ store.orders[n].product_id = product_id
               /\ store.orders[n].status = "paid"
            THEN store.orders[n].qty ELSE 0)

\* the quantity paid for so far out of the product with this id
PaidQty(product_id) == PaidQtyUpTo(product_id, Len(store.orders))

OrdersOf(product_id, statuses) ==
    {i \in OrderIdx : /\ store.orders[i].product_id = product_id
                      /\ store.orders[i].status \in statuses}

\* this step is handler h running its section with the locals r
Runs(h, r) ==
    \/ pc[h] = "wait" /\ req[h] = r /\ LockGranted(h)
    \/ /\ pc[h] = "idle" /\ r.now = clock /\ CanAcquire(STORE_LOCK) /\ NoWaiter
       /\ IF r.op = "job" THEN auto_reject_job(h, r.id)
          ELSE preflight(r) = "pass" /\ Handle(h, r)

\* the locals of handler h when this step runs operation op on order_id for
\* user: those it was suspended with, or those of a call made now
Locals(h, op, user, order_id) ==
    IF pc[h] = "wait" THEN req[h]
    ELSE Request(op, IF op = "job" THEN 0 ELSE user, order_id, 0, 0, 0,
                 IF op = "proof" THEN 1 ELSE 0, clock)

\* C1: in every reachable state every product's stock is >= 0.
StockNeverNegative == \A j \in ProductIdx : store.products[j].stock >= 0

\* C1 witness: a product sold out by an approval, with an order paid from it.
StockSoldOut ==
    \E j \in ProductIdx :
        /\ store.products[j].stock = 0
        /\ OrdersOf(store.products[j].id, {"paid"}) # {}

Edges ==
    { <<"pending_payment", "awaiting_proof">>,
      <<"awaiting_proof", "proof_submitted">>,
      <<"proof_submitted", "paid">>,
      <<"proof_submitted", "rejected">>,
      <<"proof_submitted", "cancelled">>,
      <<"pending_payment", "rejected">>,
      <<"pending_payment", "rejected_timeout">>,
      <<"awaiting_proof", "rejected">>,
      <<"awaiting_proof", "rejected_timeout">> }

\* C2: no step removes or renumbers an order; a terminal status never
\* changes; and every change of status is an edge of the transition graph.
StatusMovesForward ==
    [][ /\ Len(store'.orders) >= Len(store.orders)
        /\ \A i \in OrderIdx :
              /\ store'.orders[i].id = store.orders[i].id
              /\ store.orders[i].status \in Terminal
                    => store'.orders[i].status = store.orders[i].status
              /\ store'.orders[i].status # store.orders[i].status
                    => <<store.orders[i].status, store'.orders[i].status>> \in Edges
      ]_vars

\* C2 witness: a reject told that the order it was aimed at is terminal.
TerminalOrderRefused ==
    \E h \in Handlers, i \in OrderIdx :
        /\ store.orders[i].status \in Terminal
        /\ Len(store.orders) = 1
        /\ pc[h] = "send"
        /\ outbox[h] = reply(1, "AlreadyProcessed")

\* C3: the quantity paid out of a product never exceeds the stock it was
\* created with; an approve that finds the stock short cancels its order and
\* leaves every product as it was; and of the unit orders for a product
\* created with stock 1 at most one is paid, exactly one once another of them
\* was cancelled while the product is there.
OversellRace ==
    /\ [](\A j \in ProductIdx :
             LET id == store.products[j].id
             IN  /\ PaidQty(id) <= stock0[id]
                 /\ stock0[id] = 1 =>
                       /\ Cardinality(OrdersOf(id, {"paid"})) <= 1
                       /\ OrdersOf(id, {"cancelled"}) # {}
                             => Cardinality(OrdersOf(id, {"paid"})) = 1)
    /\ [][ \A h \in Handlers, user \in Users, i \in OrderIdx :
              LET r == Locals(h, "approve", user, store.orders[i].id)
                  j == get_product(store, store.orders[i].product_id)
              IN  ( /\ r.op = "approve" /\ r.id = store.orders[i].id
                    /\ Runs(h, r)
                    /\ store.orders[i].status = "proof_submitted"
                    /\ j # 0
                    /\ store.products[j].stock < store.orders[i].qty )
                  => /\ store'.orders[i].status = "cancelled"
                     /\ store'.products = store.products
         ]_vars

\* C3 witness: two unit orders for a product created with stock 1, one paid
\* and the other cancelled by its approve, the product sold out.
OneOfTwoPaid ==
    \E j \in ProductIdx :
        LET id == store.products[j].id
        IN  /\ stock0[id] = 1
            /\ store.products[j].stock = 0
            /\ Cardinality(OrdersOf(id, {"paid"})) = 1
            /\ Cardinality(OrdersOf(id, {"cancelled"})) = 1

\* C4: an operation that reads an order still awaiting payment at or after
\* its deadline (the buyer's requestProof or submitProof, an admin's reject,
\* the timer job) leaves it in rejected_timeout.
TimeoutEnforcedOnRead ==
    [][ \A h \in Handlers, user \in Users, i \in OrderIdx,
           op \in {"confirm", "proof", "reject", "job"} :
           LET r == Locals(h, op, user, store.orders[i].id)
           IN  ( /\ r.op = op /\ r.id = store.orders[i].id
                 /\ op \in {"confirm", "proof"} => r.user = store.orders[i].buyer_id
                 /\ (op = "proof" /\ pc[h] = "idle") => r.id = user_data[user]
                 /\ Runs(h, r)
                 /\ store.orders[i].status \in {"pending_payment", "awaiting_proof"}
                 /\ clock >= store.orders[i].created_at + ORDER_PAYMENT_TIMEOUT_SECONDS )
               => store'.orders[i].status = "rejected_timeout"
      ]_vars

\* C5: the lock is held exactly while a handler is suspended inside the
\* section, at most one handler is inside it, and while one is inside no
\* document is saved and no other handler enters; a section's load and save
\* are one step.
MutualExclusion ==
    /\ [](/\ Cardinality({h \in Handlers : InSection(h)}) <= 1
          /\ STORE_LOCK <=> \E h \in Handlers : InSection(h))
    /\ [][ (\E h \in Handlers : InSection(h))
              => /\ store' = store
                 /\ jobs' = jobs \/ \E h \in Handlers : pc[h] = "idle" /\ pc'[h] = "wait"
                 /\ user_data' = user_data
                 /\ \A h \in Handlers : InSection(h)' => InSection(h)
         ]_vars

\* C5 witness: the timer job suspended at the section while a handler is
\* inside it.
TimerWaitsForSection ==
    \E h1, h2 \in Handlers :
        /\ InSection(h1)
        /\ pc[h2] = "wait"
        /\ req[h2].op = "job"

\* C6: no handler awaits a notification send (order created, proof
\* submitted, approved, rejected, timed out) while it is inside the section.
NoNotificationInsideSection ==
    \A h \in Handlers :
        InSection(h) => Head(outbox[h]).kind = "reply"

\* C7: a successful approve sets, in one step, the product's stock to
\* stock - qty and the order to paid with paid_at and approved_by, by an
\* admin, and changes no other product, no other order and no counter.
ApproveCommits ==
    [][ \A h \in Handlers, user \in Users, i \in OrderIdx :
           LET r == Locals(h, "approve", user, store.orders[i].id)
               j == get_product(store, store.orders[i].product_id)
           IN  ( /\ r.op = "approve" /\ r.id = store.orders[i].id
                 /\ Runs(h, r)
                 /\ store.orders[i].status = "proof_submitted"
                 /\ j # 0
                 /\ store.products[j].stock >= store.orders[i].qty )
               => /\ r.user \in ADMIN_IDS
                  /\ store'.products =
                        [store.products EXCEPT ![j].stock = @ - store.orders[i].qty]
                  /\ store'.orders =
                        [store.orders EXCEPT ![i].status = "paid",
                                             ![i].paid_at = r.now,
                                             ![i].approved_by = r.user]
                  /\ store'.next_id = store.next_id
                  /\ store'.next_order_id = store.next_order_id
      ]_vars

\* C7 witness: a product created with stock 2, a unit order for it taken
\* through proof submission and approved, stock 1 left.
EndToEndPaid ==
    \E j \in ProductIdx, i \in OrderIdx :
        /\ stock0[store.products[j].id] = 2
        /\ store.products[j].stock = 1
        /\ store.orders[i].product_id = store.products[j].id
        /\ store.orders[i].qty = 1
        /\ store.orders[i].status = "paid"
        /\ store.orders[i].proof_submitted_at # None
        /\ store.orders[i].paid_at # None
        /\ store.orders[i].approved_by \in ADMIN_IDS

\* C8: an approve by a non-admin is answered Forbidden, an approve of an
\* order that is not proof_submitted is answered WrongState, and in both
\* cases, as for an unknown order id, the document, the timers and the
\* sessions are unchanged.
ApproveRefusals ==
    [][ \A h \in Handlers, user \in Users, order_id \in 1..MaxOrders :
           /\ (approve(h, user, order_id) /\ ~is_admin(user))
                 => /\ store' = store /\ jobs' = jobs /\ user_data' = user_data
                    /\ outbox'[h] = reply(user, "Forbidden")
           /\ LET r == Locals(h, "approve", user, order_id)
                  i == find_order(store, order_id)
              IN  ( /\ r.op = "approve" /\ r.id = order_id
                    /\ Runs(h, r)
                    /\ i = 0 \/ store.orders[i].status # "proof_submitted" )
                  => /\ store' = store /\ jobs' = jobs /\ user_data' = user_data
                     /\ outbox'[h] =
                           reply(r.user, IF i = 0 THEN "NotFound" ELSE "WrongState")
      ]_vars

\* C8 witness: an admin told WrongState while no order is proof_submitted.
ApproveRefused ==
    \E h \in Handlers :
        /\ pc[h] = "send"
        /\ outbox[h] = reply(1, "WrongState")
        /\ store.orders # <<>>
        /\ \A i \in OrderIdx : store.orders[i].status # "proof_submitted"

\* C9: an approve that finds the order's product removed cancels the order,
\* records cancelled_at and changes no product; no product in the document
\* carries the id of a removed one; and a product's stock changes only by an
\* approve of an order created for that id, by that order's quantity.
ApproveAfterRemoval ==
    [][ /\ \A h \in Handlers, user \in Users, i \in OrderIdx :
              LET r == Locals(h, "approve", user, store.orders[i].id)
              IN  ( /\ r.op = "approve" /\ r.id = store.orders[i].id
                    /\ Runs(h, r)
                    /\ store.orders[i].status = "proof_submitted"
                    /\ get_product(store, store.orders[i].product_id) = 0 )
                  => /\ store'.orders =
                           [store.orders EXCEPT ![i].status = "cancelled",
                                                ![i].cancelled_at = r.now]
                     /\ store'.products = store.products
        /\ \A k \in 1..Len(store'.products) :
              store'.products[k].id \notin removed_ids'
        /\ \A j \in ProductIdx, k \in 1..Len(store'.products) :
              ( /\ store'.products[k].id = store.products[j].id
                /\ store'.products[k].stock # store.products[j].stock )
              => \E h \in Handlers, user \in Users, i \in OrderIdx :
                    LET r == Locals(h, "approve", user, store.orders[i].id)
                    IN  /\ r.op = "approve" /\ r.id = store.orders[i].id
                        /\ Runs(h, r)
                        /\ store.orders[i].product_id = store.products[j].id
                        /\ store'.products[k].stock =
                              store.products[j].stock - store.orders[i].qty
      ]_vars

\* C9 witness: an order cancelled because its product was removed, and a
\* product created afterwards, under another id, with its stock untouched.
CancelledAfterRemoval ==
    \E i \in OrderIdx, j \in ProductIdx :
        /\ store.orders[i].status = "cancelled"
        /\ store.orders[i].cancelled_at # None
        /\ store.orders[i].product_id \in removed_ids
        /\ store.products[j].id > store.orders[i].product_id
        /\ store.products[j].stock = stock0[store.products[j].id]

\* C10: a reject by a non-admin is answered Forbidden and changes nothing;
\* a reject by an admin of an order in proof_submitted, pending_payment or
\* awaiting_proof sets rejected with rejected_at and rejected_by, and of an
\* order in a terminal status is answered AlreadyProcessed and changes
\* nothing; no reject changes a product.
RejectEffects ==
    [][ \A h \in Handlers, user \in Users, order_id \in 1..MaxOrders :
           /\ (reject(h, user, order_id) /\ ~is_admin(user))
                 => /\ store' = store
                    /\ outbox'[h] = reply(user, "Forbidden")
           /\ LET r == Locals(h, "reject", user, order_id)
                  i == find_order(store, order_id)
              IN  ( /\ r.op = "reject" /\ r.id = order_id
                    /\ Runs(h, r)
                    /\ i # 0 )
                  => /\ store'.products = store.products
                     /\ r.user \in ADMIN_IDS
                     /\ IF store.orders[i].status \in
                              {"proof_submitted", "pending_payment", "awaiting_proof"}
                        THEN /\ store'.orders =
                                   [store.orders EXCEPT ![i].status = "rejected",
                                                        ![i].rejected_at = r.now,
                                                        ![i].rejected_by = r.user]
                             /\ outbox'[h][Len(outbox'[h])] = reply(r.user, "ok")[1]
                        ELSE /\ store' = store
                             /\ outbox'[h] = reply(r.user, "AlreadyProcessed")
      ]_vars

\* C10 witness: an order rejected after its proof was sent, the product
\* created with stock 2 still at stock 2.
RejectedStockKept ==
    \E j \in ProductIdx, i \in OrderIdx :
        /\ stock0[store.products[j].id] = 2
        /\ store.products[j].stock = 2
        /\ store.orders[i].product_id = store.products[j].id
        /\ store.orders[i].status = "rejected"
        /\ store.orders[i].proof_submitted_at # None
        /\ store.orders[i].rejected_at # None
        /\ store.orders[i].rejected_by \in ADMIN_IDS

\* the locals of handler h when this step runs a checkout of qty units of
\* product_id for user
CheckoutLocals(h, user, product_id, qty) ==
    IF pc[h] = "wait" THEN req[h]
    ELSE Request("checkout", user, product_id, qty, 0, 0, 0, clock)

\* this step is a checkout of qty units of product_id by user in handler h
RunsCheckout(h, user, product_id, qty) ==
    LET r == CheckoutLocals(h, user, product_id, qty)
    IN  /\ r.op = "checkout" /\ r.user = user /\ r.id = product_id /\ r.qty = qty
        /\ Runs(h, r)

\* C11: a checkout that finds the product with stock >= qty appends one
\* order (pending_payment, id the previous next_order_id, the qty asked,
\* total = price * qty), advances next_order_id by one and leaves next_id,
\* every product and every order that was there unchanged.
CreateOrderFrame ==
    [][ \A h \in Handlers, user \in Users, product_id \in 1..MaxProducts,
           qty \in 1..MaxQty :
           LET r == CheckoutLocals(h, user, product_id, qty)
               j == get_product(store, product_id)
               n == Len(store.orders)
           IN  ( /\ RunsCheckout(h, user, product_id, qty)
                 /\ j # 0
                 /\ store.products[j].stock >= qty )
               => /\ store'.products = store.products
                  /\ store'.next_id = store.next_id
                  /\ store'.next_order_id = store.next_order_id + 1
                  /\ Len(store'.orders) = n + 1
                  /\ SubSeq(store'.orders, 1, n) = store.orders
                  /\ store'.orders[n + 1].id = store.next_order_id
                  /\ store'.orders[n + 1].status = "pending_payment"
                  /\ store'.orders[n + 1].product_id = product_id
                  /\ store'.orders[n + 1].qty = qty
                  /\ store'.orders[n + 1].total = store.products[j].price * qty
                  /\ store'.orders[n + 1].buyer_id = user
                  /\ store'.orders[n + 1].created_at = r.now
      ]_vars

\* C11 witness: an order for 2 units just created, the product still at the
\* stock of 2 it was created with.
OrderCreatedStockKept ==
    \E h \in Handlers, i \in OrderIdx, j \in ProductIdx :
        /\ req[h].op = "checkout" /\ pc[h] = "send"
        /\ store.orders[i].status = "pending_payment"
        /\ store.orders[i].product_id = store.products[j].id
        /\ store.orders[i].qty = 2
        /\ store.orders[i].total = 2 * store.products[j].price
        /\ store.products[j].stock = 2
        /\ stock0[store.products[j].id] = 2
        /\ store.next_order_id = store.orders[i].id + 1

\* C12: a checkout of an unknown product is answered NotFound and a checkout
\* of more than the product's stock InsufficientStock; either leaves the
\* document (orders, products, both counters), the timers and the sessions
\* unchanged.
CreateOrderRefusals ==
    [][ \A h \in Handlers, user \in Users, product_id \in 1..MaxProducts,
           qty \in 1..MaxQty :
           LET j == get_product(store, product_id)
           IN  ( /\ RunsCheckout(h, user, product_id, qty)
                 /\ j = 0 \/ store.products[j].stock < qty )
               => /\ store' = store
                  /\ jobs' = jobs
                  /\ user_data' = user_data
                  /\ outbox'[h] = reply(user, IF j = 0 THEN "NotFound"
                                              ELSE "InsufficientStock")
      ]_vars

\* C12 witness: a checkout refused for lack of stock, no order in the
\* document, the counter at 1 and no timer armed.
CheckoutRefusedNoOrder ==
    \E h \in Handlers, j \in ProductIdx :
        /\ req[h].op = "checkout"
        /\ outbox[h] = reply(2, "InsufficientStock")
        /\ store.products[j].stock >= 1
        /\ store.orders = <<>>
        /\ store.next_order_id = 1
        /\ jobs = EmptyBag

\* this step is handler h running, for user, the section of a /confirm of
\* order_id (op "confirm") or of a photo sent under the session entry
\* order_id (op "proof")
RunsProofStep(h, op, user, order_id) ==
    LET r == Locals(h, op, user, order_id)
    IN  /\ r.op = op /\ r.user = user /\ r.id = order_id
        /\ (op = "proof" /\ pc[h] = "idle") => order_id = user_data[user]
        /\ Runs(h, r)

\* C13: a /confirm or a proof photo aimed at an order by a user who is not
\* its buyer is answered Forbidden and leaves the document, the timers and
\* the sessions unchanged, whatever the order's status; and no /confirm and
\* no proof photo of a user changes an order of another buyer.
OnlyBuyerAdvances ==
    [][ \A h \in Handlers, user \in Users, op \in {"confirm", "proof"} :
           \A i \in OrderIdx :
              store.orders[i].buyer_id # user
                 => /\ RunsProofStep(h, op, user, store.orders[i].id)
                          => /\ store' = store
                             /\ jobs' = jobs
                             /\ user_data' = user_data
                             /\ outbox'[h] = reply(user, "Forbidden")
                    /\ store'.orders[i] # store.orders[i]
                          => \A order_id \in 1..MaxOrders :
                                ~RunsProofStep(h, op, user, order_id)
      ]_vars

\* C13 witness: an admin's /confirm of a buyer's order that awaits its proof,
\* answered Forbidden, the order still awaiting its proof.
ConfirmByOtherRefused ==
    \E h \in Handlers, i \in OrderIdx :
        /\ req[h].op = "confirm"
        /\ outbox[h] = reply(1, "Forbidden")
        /\ store.orders[i].buyer_id = 2
        /\ store.orders[i].status = "awaiting_proof"
        /\ Len(store.orders) = 1

\* C14: a step that commits awaiting_proof or proof_submitted is taken at a
\* time strictly before the order's created_at + 60 s, and a buyer's
\* /confirm or proof photo that runs at or after that time on an order in
\* pending_payment or awaiting_proof sets rejected_timeout.
NoProofAfterDeadline ==
    [][ \A i \in OrderIdx :
           /\ ( /\ store'.orders[i].status # store.orders[i].status
                /\ store'.orders[i].status \in {"awaiting_proof", "proof_submitted"} )
              => clock < store.orders[i].created_at + ORDER_PAYMENT_TIMEOUT_SECONDS
           /\ ( /\ clock >= store.orders[i].created_at + ORDER_PAYMENT_TIMEOUT_SECONDS
                /\ awaits_payment(store.orders[i]) )
              => \A h \in Handlers, op \in {"confirm", "proof"} :
                    RunsProofStep(h, op, store.orders[i].buyer_id, store.orders[i].id)
                       => store'.orders[i].status = "rejected_timeout"
      ]_vars

\* this step is the timer job of order_id running its section in handler h
RunsJob(h, order_id) ==
    LET r == Locals(h, "job", 0, order_id)
    IN  r.op = "job" /\ r.id = order_id /\ Runs(h, r)

\* the timer job's transaction on document d for order_id at time now
Expire(d, order_id, now) ==
    auto_reject(d, Request("job", 0, order_id, 0, 0, 0, 0, now))

\* C15: a timer job that finds its order outside pending_payment and
\* awaiting_proof (already rejected_timeout included), or finds no order,
\* leaves the document and the sessions as they were, sends nothing and arms
\* nothing; and in every reachable document an expire applied after an
\* expire, at the same time or later, saves nothing, sends nothing and
\* leaves the document the first one produced.
ExpireIdempotent ==
    /\ [][ \A h \in Handlers, order_id \in 1..MaxOrders :
              LET i == find_order(store, order_id)
              IN  ( /\ i = 0 \/ ~awaits_payment(store.orders[i])
                    /\ RunsJob(h, order_id) )
                  => /\ store' = store
                     /\ user_data' = user_data
                     /\ outbox'[h] = <<>>
                     /\ pc'[h] = "idle"
                     /\ get_jobs_by_name(jobs', order_id) = {}
         ]_vars
    /\ [](\A order_id \in 1..MaxOrders, now \in {clock, clock + TickStep},
             later \in {0, TickStep} :
             LET once == Expire(store, order_id, now)
                 twice == Expire(once.doc, order_id, now + later)
             IN  once.result = "Expired"
                    => /\ twice.doc = once.doc
                       /\ ~twice.saved
                       /\ twice.sends = <<>>
                       /\ twice.arm = 0)

\* C15 witness: an order timed out by its buyer's late /confirm, and its
\* timer job run afterwards to no effect.
TimerFoundOrderTimedOut ==
    \E i \in OrderIdx :
        /\ store.orders[i].status = "rejected_timeout"
        /\ job_result[store.orders[i].id] = "AlreadyProcessed"
        /\ \A h \in Handlers : pc[h] = "idle"

\* C16: the timer job changes an order only if it finds it in
\* pending_payment or awaiting_proof, and never changes a product; no step
\* moves an order from proof_submitted to rejected_timeout, and a timer job
\* that finds the order in proof_submitted leaves the document as it was; a
\* proof photo that finds the order in rejected_timeout is answered Expired
\* and leaves the document, without a proof, as it was.
TimerVersusProof ==
    [][ \A i \in OrderIdx :
           /\ store.orders[i].status = "proof_submitted"
                 => store'.orders[i].status # "rejected_timeout"
           /\ \A h \in Handlers :
                 /\ \A order_id \in 1..MaxOrders :
                       RunsJob(h, order_id)
                          => /\ store'.products = store.products
                             /\ store'.orders[i] # store.orders[i]
                                   => /\ order_id = store.orders[i].id
                                      /\ awaits_payment(store.orders[i])
                 /\ ( /\ store.orders[i].status = "proof_submitted"
                      /\ RunsJob(h, store.orders[i].id) )
                       => store' = store
                 /\ ( /\ store.orders[i].status = "rejected_timeout"
                      /\ RunsProofStep(h, "proof", store.orders[i].buyer_id,
                                       store.orders[i].id) )
                       => /\ store' = store
                          /\ store.orders[i].proof_file_id = None
                          /\ outbox'[h] = reply(store.orders[i].buyer_id, "Expired")
      ]_vars

\* C16 witness: an order timed out by its timer job, and the buyer's proof
\* photo, sent afterwards, answered Expired with no proof recorded.
ProofAfterTimerRefused ==
    \E h \in Handlers, i \in OrderIdx :
        /\ store.orders[i].status = "rejected_timeout"
        /\ job_result[store.orders[i].id] = "Expired"
        /\ store.orders[i].proof_file_id = None
        /\ store.orders[i].proof_submitted_at = None
        /\ req[h].op = "proof"
        /\ outbox[h] = reply(store.orders[i].buyer_id, "Expired")

\* the number of scheduled jobs named auto_reject_<order_id>
TimersOf(order_id) ==
    LET named == get_jobs_by_name(jobs, order_id)
    IN  IF named = {} THEN 0
        ELSE IF Cardinality(named) = 1
        THEN CopiesIn(CHOOSE job \in named : TRUE, jobs)
        ELSE 2

\* C17: in every reachable state at most one job is scheduled per order id,
\* and arming a timer for an order id that has a job scheduled, with any
\* delay, leaves the job queue as it is.
OneTimerPerOrder ==
    \A order_id \in 1..MaxOrders :
        /\ TimersOf(order_id) <= 1
        /\ TimersOf(order_id) = 1
              => \A delay \in {1, TickStep, ORDER_PAYMENT_TIMEOUT_SECONDS} :
                    schedule_auto_reject(jobs, order_id, delay, clock, job_queue) = jobs

\* C17 witness: a timer armed at checkout, run ahead of the deadline and
\* armed again by its own job: one job scheduled for the order, and no other.
OneTimerAfterRearm ==
    \E i \in OrderIdx :
        /\ job_result[store.orders[i].id] = "NotExpired"
        /\ TimersOf(store.orders[i].id) = 1
        /\ BagCardinality(jobs) = 1

LiveInit == Init /\ scope.horizon = MaxTime /\ ~scope.early /\ job_queue

LiveSpec ==
    /\ LiveInit
    /\ [][Next]_vars
    /\ WF_vars(Tick)
    /\ \A h \in Handlers :
          /\ WF_vars(\E delivered \in BOOLEAN : Send(h, delivered))
          /\ WF_vars(LockGranted(h))
    /\ \A order_id \in 1..MaxOrders :
          SF_vars(\E h \in Handlers : auto_reject_job(h, order_id))

\* the timer of order_id is scheduled and due within the time explored
TimerArmed(order_id) ==
    \E job \in get_jobs_by_name(jobs, order_id) : job.due <= scope.horizon

\* order_id is in the document and awaits neither payment nor proof any more
Settled(order_id) ==
    /\ find_order(store, order_id) # 0
    /\ ~awaits_payment(store.orders[find_order(store, order_id)])

\* C19: under fair scheduling every order whose timer was armed at checkout
\* eventually leaves pending_payment and awaiting_proof (for
\* proof_submitted or a terminal status).
AutoExpiryLive ==
    \A order_id \in 1..MaxOrders : TimerArmed(order_id) ~> Settled(order_id)

\* C19 witness: an order on which neither its buyer nor an admin acted,
\* moved to rejected_timeout by its timer job.
TimerExpiredIdleOrder ==
    \E i \in OrderIdx :
        /\ store.orders[i].status = "rejected_timeout"
        /\ job_result[store.orders[i].id] = "Expired"
        /\ store.orders[i].rejected_at >=
              store.orders[i].created_at + ORDER_PAYMENT_TIMEOUT_SECONDS
        /\ user_data[store.orders[i].buyer_id] = 0
        /\ store.orders[i].proof_submitted_at = None
        /\ store.orders[i].rejected_by = None

\* C20: a notification whose delivery fails leaves the document, the
\* timers and the sessions as they are and leaves the handler exactly where
\* a delivery that succeeded leaves it: the sends that follow, to the other
\* admins and the answer to the caller among them, are still to be made.
NotificationFailureHarmless ==
    [][ \A h \in Handlers :
           ( /\ pc[h] \in {"send", "send_locked"}
             /\ Head(outbox[h]).kind # "reply"
             /\ Send(h, FALSE) )
           => /\ store' = store
              /\ jobs' = jobs
              /\ user_data' = user_data
              /\ outbox'[h] = Tail(outbox[h])
              /\ Send(h, TRUE)
      ]_vars

\* C20 witness: a proof recorded and its notification to the first admin
\* attempted: the notification to the second admin is the next send.
SecondAdminStillNotified ==
    \E h \in Handlers, i \in OrderIdx :
        /\ req[h].op = "proof"
        /\ store.orders[i].status = "proof_submitted"
        /\ outbox[h] = <<[kind |-> "proof_submitted", to |-> NumUsers + 1, text |-> ""]>>

\* C21: without a job queue no job is ever scheduled, yet a checkout that
\* finds the product with stock >= qty appends the order in pending_payment
\* and answers ok; and, without a job queue, the buyer's /confirm or proof
\* photo that reads the clock at or after created_at + 60 s on an order in
\* pending_payment or awaiting_proof sets rejected_timeout.
CreateWithoutTimer ==
    /\ [](~job_queue => jobs = EmptyBag)
    /\ [][ ~job_queue =>
              /\ \A h \in Handlers, user \in Users, product_id \in 1..MaxProducts,
                    qty \in 1..MaxQty :
                    LET j == get_product(store, product_id)
                        n == Len(store.orders)
                    IN  ( /\ RunsCheckout(h, user, product_id, qty)
                          /\ j # 0
                          /\ store.products[j].stock >= qty )
                        => /\ Len(store'.orders) = n + 1
                           /\ store'.orders[n + 1].status = "pending_payment"
                           /\ store' = create_order(store,
                                          CheckoutLocals(h, user, product_id, qty)).doc
                           /\ outbox'[h][Len(outbox'[h])] = reply(user, "ok")[1]
              /\ \A h \in Handlers, i \in OrderIdx, op \in {"confirm", "proof"} :
                    LET order == store.orders[i]
                        r == Locals(h, op, order.buyer_id, order.id)
                    IN  ( /\ awaits_payment(order)
                          /\ RunsProofStep(h, op, order.buyer_id, order.id)
                          /\ r.now >= order.created_at + ORDER_PAYMENT_TIMEOUT_SECONDS )
                        => store'.orders[i].status = "rejected_timeout"
         ]_vars

\* C21 witness: without a job queue, an order timed out by its buyer's
\* /confirm at the deadline.
ExpiredWithoutTimer ==
    \E h \in Handlers, i \in OrderIdx :
        /\ ~job_queue
        /\ store.orders[i].status = "rejected_timeout"
        /\ store.orders[i].rejected_at >=
              store.orders[i].created_at + ORDER_PAYMENT_TIMEOUT_SECONDS
        /\ req[h].op = "confirm"
        /\ InSection(h)
        /\ Head(outbox[h]).kind = "timed_out"

\* C22: in every reachable state the product ids are pairwise distinct, the
\* order ids are pairwise distinct, next_id is greater than the id of every
\* product listed or removed and next_order_id is greater than every order
\* id; no product listed carries a removed id; and a step that advances one
\* counter advances it by one and leaves the other as it was.
IdsNeverReused ==
    /\ [] /\ \A j, k \in ProductIdx :
                store.products[j].id = store.products[k].id => j = k
          /\ \A i, k \in OrderIdx :
                store.orders[i].id = store.orders[k].id => i = k
          /\ \A j \in ProductIdx :
                /\ store.products[j].id < store.next_id
                /\ store.products[j].id \notin removed_ids
          /\ \A product_id \in removed_ids : product_id < store.next_id
          /\ \A i \in OrderIdx : store.orders[i].id < store.next_order_id
    /\ [][ /\ store'.next_id # store.next_id
              => /\ store'.next_id = store.next_id + 1
                 /\ store'.next_order_id = store.next_order_id
                 /\ store'.products[Len(store'.products)].id = store.next_id
           /\ store'.next_order_id # store.next_order_id
              => /\ store'.next_order_id = store.next_order_id + 1
                 /\ store'.next_id = store.next_id
                 /\ store'.orders[Len(store'.orders)].id = store.next_order_id
         ]_vars

\* C22 witness: a product created after a removal under a fresh id, with the
\* two counters apart.
FreshIdAfterRemoval ==
    \E j \in ProductIdx :
        /\ removed_ids # {}
        /\ \A product_id \in removed_ids : store.products[j].id > product_id
        /\ store.orders # <<>>
        /\ store.next_id > store.next_order_id

\* C23: a /remove by a non-admin is answered Forbidden and changes nothing;
\* a /remove of an id no product carries is answered NotFound and changes
\* nothing; a /remove of a listed product by an admin deletes that product
\* alone and leaves the other products, every order and both counters as
\* they were.
RemoveFrame ==
    [][ \A h \in Handlers, user \in Users, product_id \in 1..MaxProducts :
           /\ (remove_product(h, user, product_id) /\ ~is_admin(user))
                 => /\ store' = store
                    /\ outbox'[h] = reply(user, "Forbidden")
           /\ LET r == IF pc[h] = "wait" THEN req[h]
                       ELSE Request("remove", user, product_id, 0, 0, 0, 0, clock)
                  j == get_product(store, product_id)
              IN  ( /\ r.op = "remove" /\ r.id = product_id /\ r.user = user
                    /\ Runs(h, r) )
                  => /\ is_admin(user)
                     /\ IF j = 0
                        THEN /\ store' = store
                             /\ outbox'[h] = reply(user, "NotFound")
                        ELSE /\ store'.products =
                                   SelectSeq(store.products,
                                             LAMBDA item : item.id # product_id)
                             /\ Len(store'.products) = Len(store.products) - 1
                             /\ store'.orders = store.orders
                             /\ store'.next_id = store.next_id
                             /\ store'.next_order_id = store.next_order_id
                             /\ outbox'[h] = reply(user, "ok")
      ]_vars

\* C23 witness: a product removed while an open order refers to it and
\* another product stays listed.
RemovedUnderOpenOrder ==
    \E h \in Handlers, i \in OrderIdx :
        /\ req[h].op = "remove"
        /\ outbox[h] = reply(1, "ok")
        /\ store.orders[i].product_id \in removed_ids
        /\ store.orders[i].status \in NonTerminal
        /\ store.products # <<>>

\* C24: in every reachable state, of paid_at, rejected_at and cancelled_at an
\* order has set exactly the one of its status (paid_at when paid,
\* rejected_at when rejected or rejected_timeout, cancelled_at when
\* cancelled) and none of them while its status is not terminal.
TerminalStamps ==
    \A i \in OrderIdx :
        LET order == store.orders[i]
        IN  /\ order.paid_at # None <=> order.status = "paid"
            /\ order.rejected_at # None
                  <=> order.status \in {"rejected", "rejected_timeout"}
            /\ order.cancelled_at # None <=> order.status = "cancelled"
            /\ order.status \in NonTerminal
                  => /\ order.paid_at = None
                     /\ order.rejected_at = None
                     /\ order.cancelled_at = None
            /\ order.status \in Terminal
                  => Cardinality({f \in {"paid_at", "rejected_at", "cancelled_at"} :
                                     order[f] # None}) = 1

\* C24 witness: one order cancelled and one paid, each with its own stamp.
CancelledAndPaidStamped ==
    \E i, k \in OrderIdx :
        /\ store.orders[i].status = "cancelled"
        /\ store.orders[i].cancelled_at # None
        /\ store.orders[k].status = "paid"
        /\ store.orders[k].paid_at # None

\* the locals handler h can run a section with in this step: those it was
\* suspended with, or those of any call made now
Calls(h) ==
    IF pc[h] = "wait" THEN {req[h]}
    ELSE { Request("sell", user, 0, 0, price, stock, 0, clock) :
              user \in Users, price \in 0..MaxPrice, stock \in 0..MaxStock }
         \cup { Request("checkout", user, product_id, qty, 0, 0, 0, clock) :
                   user \in Users, product_id \in 1..MaxProducts, qty \in 0..MaxQty }
         \cup { Request(op, user, id, 0, 0, 0, 0, clock) :
                   op \in {"remove", "confirm", "approve", "reject"},
                   user \in Users, id \in 1..MaxOrders }
         \cup { Request("proof", user, user_data[user], 0, 0, 0, 1, clock) :
                   user \in Users }
         \cup { Request("job", 0, order_id, 0, 0, 0, 0, clock) :
                   order_id \in 1..MaxOrders }

\* C25: /list, /detail and /myproducts can run whenever their handler is
\* idle, whether or not the lock is held, are never suspended and change
\* neither the document nor the lock; and every step that changes the
\* document is one handler running its section and leaves the document that
\* section saved, so that the document read in any state is the outcome of a
\* whole number of sections.
ReadersSeeWholeTransactions ==
    /\ [](\A h \in scope.handlers, user \in Users :
             (scope.readers /\ pc[h] = "idle")
             => /\ ENABLED list_products(h, user)
                /\ ENABLED my_products(h, user)
                /\ ENABLED detail_product(h, user, 1))
    /\ [][ /\ store' # store
              => \E h \in Handlers : \E r \in Calls(h) :
                    /\ transaction(store, r).saved
                    /\ store' = transaction(store, r).doc
                    /\ Runs(h, r)
           /\ \A h \in Handlers, user \in Users :
                 ( \/ list_products(h, user)
                   \/ my_products(h, user)
                   \/ \E product_id \in 1..MaxProducts :
                         detail_product(h, user, product_id) )
                 => /\ store' = store
                    /\ STORE_LOCK' = STORE_LOCK
                    /\ waiters' = waiters
                    /\ pc'[h] = "send"
         ]_vars

\* C25 witness: /list answered from the document while another handler is
\* inside the section, having saved a timeout and still sending its notices.
ListedDuringSection ==
    \E h, g \in Handlers :
        /\ InSection(g)
        /\ Len(outbox[g]) > 1
        /\ Head(outbox[g]).kind = "timed_out"
        /\ \E i \in OrderIdx : store.orders[i].status = "rejected_timeout"
        /\ pc[h] = "send"
        /\ req[h].op = "list"
        /\ outbox[h] = reply(2, "ok")

\* C26: an approve or a reject that finds the order in a terminal status
\* changes nothing; an order becomes paid only from proof_submitted, in a
\* step that takes its quantity from its product's stock; a paid order is
\* never changed again; and every step that changes a product's stock turns
\* exactly one order of that product to paid and takes that order's quantity.
NeverDoubleProcessed ==
    [][ /\ \A h \in Handlers, user \in Users, i \in OrderIdx,
             op \in {"approve", "reject"} :
              LET r == Locals(h, op, user, store.orders[i].id)
              IN  ( /\ store.orders[i].status \in Terminal
                    /\ r.op = op /\ r.id = store.orders[i].id
                    /\ Runs(h, r) )
                  => store' = store
        /\ \A i \in OrderIdx :
              /\ store.orders[i].status = "paid"
                    => store'.orders[i] = store.orders[i]
              /\ ( /\ store.orders[i].status # "paid"
                   /\ store'.orders[i].status = "paid" )
                 => /\ store.orders[i].status = "proof_submitted"
                    /\ \E j \in ProductIdx :
                          /\ store.products[j].id = store.orders[i].product_id
                          /\ store'.products[j].stock =
                                store.products[j].stock - store.orders[i].qty
        /\ \A j \in ProductIdx, k \in 1..Len(store'.products) :
              ( /\ store'.products[k].id = store.products[j].id
                /\ store'.products[k].stock # store.products[j].stock )
              => LET turned == {i \in OrderIdx :
                                   /\ store.orders[i].status # "paid"
                                   /\ store'.orders[i].status = "paid"}
                 IN  /\ Cardinality(turned) = 1
                     /\ \A i \in turned :
                           /\ store.orders[i].product_id = store.products[j].id
                           /\ store.products[j].stock - store'.products[k].stock
                                 = store.orders[i].qty
      ]_vars

\* C26 witness: a reject of an order already approved refused, the stock
\* taken once.
RejectAfterApproveRefused ==
    \E h \in Handlers, i \in OrderIdx, j \in ProductIdx :
        /\ store.orders[i].status = "paid"
        /\ req[h].op = "reject"
        /\ outbox[h] = reply(1, "AlreadyProcessed")
        /\ store.products[j].id = store.orders[i].product_id
        /\ store.orders[i].qty > 0
        /\ store.products[j].stock = stock0[store.products[j].id] - store.orders[i].qty

\* C27: an order becomes proof_submitted only from awaiting_proof, by a photo
\* handler of its buyer that took the order's id from the buyer's session
\* entry when it was called, in a step that clears that entry; a
\* session entry is set only to the id of an order of that user that the
\* same step leaves in awaiting_proof; and a photo from a user whose session
\* entry is clear is answered NoSession and changes nothing.
ProofOnlyAfterPrompt ==
    [][ /\ \A i \in OrderIdx :
              ( /\ store.orders[i].status # "proof_submitted"
                /\ store'.orders[i].status = "proof_submitted" )
              => /\ store.orders[i].status = "awaiting_proof"
                 /\ user_data'[store.orders[i].buyer_id] = 0
                 /\ \E h \in Handlers :
                       LET r == Locals(h, "proof", store.orders[i].buyer_id,
                                       store.orders[i].id)
                       IN  /\ r.op = "proof"
                           /\ r.id = store.orders[i].id
                           /\ r.user = store.orders[i].buyer_id
                           /\ pc[h] = "idle"
                                 => user_data[r.user] = store.orders[i].id
                           /\ Runs(h, r)
        /\ \A user \in Users :
              (user_data'[user] # user_data[user] /\ user_data'[user] # 0)
              => \E i \in OrderIdx :
                    /\ store.orders[i].id = user_data'[user]
                    /\ store.orders[i].buyer_id = user
                    /\ store'.orders[i].status = "awaiting_proof"
        /\ \A h \in Handlers, user \in Users, photo \in 0..1 :
              (user_data[user] = 0 /\ handle_proof(h, user, photo))
              => /\ store' = store
                 /\ user_data' = user_data
                 /\ outbox'[h] = reply(user, "NoSession")
      ]_vars

\* C27 witness: after a proof was accepted, a second photo from the same
\* buyer refused for want of a session.
SecondProofRefused ==
    \E h \in Handlers, i \in OrderIdx :
        /\ store.orders[i].status = "proof_submitted"
        /\ user_data[store.orders[i].buyer_id] = 0
        /\ req[h].op = "proof"
        /\ outbox[h] = reply(store.orders[i].buyer_id, "NoSession")

\* C28: in every reachable state, for every product listed, its stock plus
\* the quantities of the paid orders made for its id equals the stock it was
\* created with; and a step changes a listed product's stock only when it is
\* an approve by an admin that turns an order of that product from
\* proof_submitted to paid.
StockConservation ==
    /\ [](\A j \in ProductIdx :
             store.products[j].stock + PaidQty(store.products[j].id)
                = stock0[store.products[j].id])
    /\ [][ \A j \in ProductIdx, k \in 1..Len(store'.products) :
              ( /\ store'.products[k].id = store.products[j].id
                /\ store'.products[k].stock # store.products[j].stock )
              => \E h \in Handlers, i \in OrderIdx :
                    LET r == Locals(h, "approve", 1, store.orders[i].id)
                    IN  /\ r.op = "approve" /\ r.id = store.orders[i].id
                        /\ is_admin(r.user)
                        /\ store.orders[i].product_id = store.products[j].id
                        /\ store.orders[i].status = "proof_submitted"
                        /\ store'.orders[i].status = "paid"
                        /\ Runs(h, r)
         ]_vars

\* C28 witness: a product created with two units, both paid for by two
\* orders of one unit each.
TwoUnitsPaidOut ==
    \E j \in ProductIdx, i, k \in OrderIdx :
        /\ i # k
        /\ stock0[store.products[j].id] = 2
        /\ store.products[j].stock = 0
        /\ store.orders[i].status = "paid" /\ store.orders[i].qty = 1
        /\ store.orders[k].status = "paid" /\ store.orders[k].qty = 1
        /\ store.orders[i].product_id = store.products[j].id
        /\ store.orders[k].product_id = store.products[j].id

\* C29: a handler starts sending timeout notices only in the step in which
\* it runs the timer job, a /confirm or a photo on an order in
\* pending_payment or awaiting_proof and commits that one order as
\* rejected_timeout, and then sends exactly one notice to the buyer and one
\* to each admin; a handler that is sending is given no further notice to
\* send; and an order in rejected_timeout stays there, so that no second
\* step can send the notices for it.
TimeoutNoticeOnce ==
    [][ /\ \A h \in Handlers :
              IF pc[h] \in {"idle", "wait"}
              THEN (\E n \in 1..Len(outbox'[h]) : outbox'[h][n].kind = "timed_out")
                   => LET turned == {i \in OrderIdx :
                                        /\ store.orders[i].status # "rejected_timeout"
                                        /\ store'.orders[i].status = "rejected_timeout"}
                      IN  /\ Cardinality(turned) = 1
                          /\ \A i \in turned :
                                /\ awaits_payment(store.orders[i])
                                /\ outbox'[h] = notify_timeout(store.orders[i])
                                /\ \E op \in {"job", "confirm", "proof"} :
                                      LET r == Locals(h, op, store.orders[i].buyer_id,
                                                      store.orders[i].id)
                                      IN  /\ r.op = op
                                          /\ r.id = store.orders[i].id
                                          /\ Runs(h, r)
              ELSE outbox'[h] \in {outbox[h], Tail(outbox[h]), <<>>}
        /\ \A i \in OrderIdx :
              store.orders[i].status = "rejected_timeout"
              => store'.orders[i] = store.orders[i]
      ]_vars

\* C29 witness: the timer job sending the notices for the order it timed
\* out while the buyer's /confirm on it is answered that it has expired.
NoticeFromTimerOnly ==
    \E h, g \in Handlers, i \in OrderIdx :
        /\ store.orders[i].status = "rejected_timeout"
        /\ req[h].op = "job"
        /\ outbox[h] = notify_timeout(store.orders[i])
        /\ req[g].op = "confirm"
        /\ outbox[g] = reply(store.orders[i].buyer_id, "Expired")

\* C30: the lock is held exactly while one handler awaits a send inside its
\* section, a handler queued for the lock is suspended and is never the one
\* holding it, and, under fair scheduling with every send returning or
\* raising, the lock once held is eventually free and every handler
\* suspended on it eventually enters its section.
SectionLive ==
    /\ [] /\ STORE_LOCK <=> (\E h \in Handlers : InSection(h))
          /\ Cardinality({h \in Handlers : InSection(h)}) <= 1
          /\ \A n \in 1..Len(waiters) : pc[waiters[n]] = "wait"
          /\ \A h \in Handlers :
                pc[h] = "wait" <=> (\E n \in 1..Len(waiters) : waiters[n] = h)
    /\ STORE_LOCK ~> ~STORE_LOCK
    /\ \A h \in Handlers : (pc[h] = "wait") ~> (pc[h] # "wait")

\* C30 witness: a checkout that was suspended on the lock across the
\* deadline entered its section afterwards: its timer is due later than 60
\* seconds after the created_at it had read before waiting.
WaiterEntered ==
    \E i \in OrderIdx : \E job \in get_jobs_by_name(jobs, store.orders[i].id) :
        job.due > store.orders[i].created_at + ORDER_PAYMENT_TIMEOUT_SECONDS

====
